---- MODULE Spec2Model ----
(***************************************************************************)
(* Model of src/src/algorithmic_strategist/pulling_historical_data.py:     *)
(* the OHLCV cleaning routine clean_dataframe, the per-pair download step  *)
(* download_symbol_timeframe and the sequential driver main.               *)
(*                                                                         *)
(* A DataFrame is a record [cols, rows]: cols is the set of column names   *)
(* present, rows the sequence of its rows in positional order.  A row is a *)
(* record with the index value ts and one field per column present.        *)
(***************************************************************************)
EXTENDS Integers, Sequences, FiniteSets, TLC

\* ------------------------------------------------------------------ bounds
MaxLen == 3          \* longest input series with all five columns
MaxTs == 2           \* timestamps are 1..MaxTs
MaxBrokenLen == 1    \* longest input series that lacks a column
MaxCalls == 2        \* clean_dataframe is re-applied to its own result
MaxSymbols == 2      \* longest symbol list in config/symbols.json

\* ------------------------------------------------------------ value model
\* The missing value (NaN): every ordering comparison with it is false.
NaN == 99

IsNaN(x) == x = NaN

ohlcv_cols == {"open", "high", "low", "close", "volume"}

Bar(o, h, l, c, v) == [open |-> o, high |-> h, low |-> l, close |-> c, volume |-> v]

\* Representative candles: two well-formed ones (the second with high = low)
\* and one per filter, which that filter alone removes: a missing open, an
\* inverted bar, a zero volume.
Bars ==
    { Bar(1, 2, 1, 1, 1), Bar(1, 1, 1, 1, 2),
      Bar(NaN, 2, 1, 1, 1), Bar(1, 1, 2, 1, 1), Bar(1, 2, 1, 1, 0) }

Row(t, b) == [ts |-> t, open |-> b.open, high |-> b.high, low |-> b.low,
              close |-> b.close, volume |-> b.volume]

Rows == { Row(t, b) : t \in 1..MaxTs, b \in Bars }

\* A row of a frame that only has the columns cols.
Restrict(r, cols) == [f \in cols \cup {"ts"} |-> r[f]]

SeqsUpTo(S, n) == UNION { [1..k -> S] : k \in 0..n }

Frames ==
    { [cols |-> ohlcv_cols, rows |-> s] : s \in SeqsUpTo(Rows, MaxLen) }
    \cup
    UNION { { [cols |-> ohlcv_cols \ {c}, rows |-> s] :
                s \in SeqsUpTo({ Restrict(r, ohlcv_cols \ {c}) : r \in Rows }, MaxBrokenLen) } :
            c \in ohlcv_cols }

\* ------------------------------------------------------- clean_dataframe
\* len(df)
len(rows) == Len(rows)

\* df.empty: some axis has length zero.
empty(df) == Len(df.rows) = 0 \/ df.cols = {}

\* df.index.is_monotonic_increasing (non-strict)
is_monotonic_increasing(rows) ==
    \A i \in 1..Len(rows) - 1 : rows[i].ts <= rows[i + 1].ts

\* Variant: the frame is left in input order.
sort_index_unsorted(rows) == { rows }

\* df.sort_index(): rows reordered so that the index is ascending.  pandas
\* returns a frame whose index is already ascending as it is.  Otherwise it
\* sorts, and as the call passes no kind= the sort is the default "quicksort",
\* which is not a stable sort: every ascending arrangement of the rows is a
\* possible result.
sort_index(rows) ==
    IF is_monotonic_increasing(rows) THEN { rows }
    ELSE { [i \in 1..Len(rows) |-> rows[p[i]]] : p \in
             { q \in Permutations(1..Len(rows)) :
                 \A i \in 1..Len(rows) - 1 : rows[q[i]].ts <= rows[q[i + 1]].ts } }

\* Variant: keep="last".
duplicated_keep_last(rows, i) == \E j \in i + 1..Len(rows) : rows[j].ts = rows[i].ts

\* df.index.duplicated(keep="first")[i]
duplicated(rows, i) == \E j \in 1..i - 1 : rows[j].ts = rows[i].ts

\* Variant: a row is compared with its predecessor only, and the row after a
\* removed one is skipped (removal while iterating).
RECURSIVE skipping(_, _)
skipping(rows, i) == i > 1 /\ rows[i].ts = rows[i - 1].ts /\ ~skipping(rows, i - 1)

drop_duplicates_skipping(rows) ==
    LET F[k \in 0..Len(rows)] ==
            IF k = 0 THEN <<>>
            ELSE IF skipping(rows, k) THEN F[k - 1]
            ELSE Append(F[k - 1], rows[k])
    IN F[Len(rows)]

\* df[~df.index.duplicated(keep="first")]
drop_duplicates(rows) ==
    LET F[k \in 0..Len(rows)] ==
            IF k = 0 THEN <<>>
            ELSE IF duplicated(rows, k) THEN F[k - 1]
            ELSE Append(F[k - 1], rows[k])
    IN F[Len(rows)]

\* Variant: absent subset columns are ignored unless all are absent.
dropna_raises_lenient(cols, subset) == subset \cap cols = {}

\* df.dropna(subset=...) raises KeyError when a subset column is absent.
dropna_raises(cols, subset) == ~(subset \subseteq cols)

\* df.dropna(subset=...): keep the rows with no NaN in the subset columns.
dropna(rows, subset) == SelectSeq(rows, LAMBDA r : \A c \in subset : ~IsNaN(r[c]))

\* Variant: strict comparison.
high_gt_low(r) == ~IsNaN(r.high) /\ ~IsNaN(r.low) /\ r.high > r.low

\* (df["high"] >= df["low"])[row]
high_ge_low(r) == ~IsNaN(r.high) /\ ~IsNaN(r.low) /\ r.high >= r.low

\* Variant: zero volume accepted.
volume_non_negative(r) == ~IsNaN(r.volume) /\ r.volume >= 0

\* (df["volume"] > 0)[row]
volume_positive(r) == ~IsNaN(r.volume) /\ r.volume > 0

\* Variant: the subtraction is reversed.
dropped_rows_reversed(original_len, rows) == len(rows) - original_len

\* dropped = original_len - len(df)
dropped_rows(original_len, rows) == original_len - len(rows)

\* Variant: the message is built whenever the count is not negative.
warns_always(dropped) == dropped >= 0

\* if dropped > 0: log.warning(...)
warns(dropped) == dropped > 0

\* The whole function, for the arrangement s that sort_index produced.
\* Result: what was raised ("none" when it returned), the returned frame,
\* the dropped count and the diagnostics logged.
clean_dataframe(df, s) ==
    LET original_len == len(df.rows)
        deduped == drop_duplicates(s)
    IN  IF dropna_raises(df.cols, ohlcv_cols)
        THEN [raised |-> "KeyError", sorted |-> s, out |-> <<>>, dropped |-> 0, log |-> {}]
        ELSE
        LET nonan == dropna(deduped, ohlcv_cols)
            hl == SelectSeq(nonan, high_ge_low)
            vol == SelectSeq(hl, volume_positive)
            dropped == dropped_rows(original_len, vol)
        IN  IF warns(dropped) /\ original_len = 0
            THEN [raised |-> "ZeroDivisionError", sorted |-> s, out |-> <<>>,
                  dropped |-> dropped, log |-> {}]
            ELSE [raised |-> "none", sorted |-> s, out |-> vol, dropped |-> dropped,
                  log |-> (IF warns(dropped) THEN {"warning: cleaned bad rows"} ELSE {})
                          \cup (IF ~is_monotonic_increasing(vol)
                                THEN {"error: index not monotonically increasing"}
                                ELSE {})]

\* ---------------------------------------------- download_symbol_timeframe
\* TIMEFRAME_CONFIG, by folder label, in configuration order.
TIMEFRAME_CONFIG == <<"1min", "5min", "15min", "30min", "1hr", "4hr", "1day">>

\* What dp.fetch does for one (symbol, timeframe): it raises, or it returns
\* a frame with the five OHLCV columns.
EmptyFrame == [cols |-> ohlcv_cols, rows |-> <<>>]

AllBadFrame ==
    [cols |-> ohlcv_cols,
     rows |-> <<Row(2, Bar(1, 1, 2, 1, 1)), Row(1, Bar(1, 2, 1, 1, 0)), Row(1, Bar(NaN, 2, 1, 1, 1))>>]

MessyFrame ==
    [cols |-> ohlcv_cols,
     rows |-> <<Row(3, Bar(1, 2, 1, 1, 1)), Row(1, Bar(1, 2, 1, 1, 1)), Row(3, Bar(1, 2, 1, 1, 1)),
                Row(2, Bar(1, 2, 1, 1, 0))>>]

FetchOutcomes ==
    { [kind |-> "raise", df |-> EmptyFrame] }
    \cup { [kind |-> "frame", df |-> f] : f \in {EmptyFrame, AllBadFrame, MessyFrame} }

\* A parquet file left by an earlier run.
StaleFile == <<[cols |-> ohlcv_cols, rows |-> <<Row(1, Bar(1, 1, 1, 1, 2))>>]>>

NoFile == <<>>

\* Variant: the fetch is not wrapped in try/except.
download_symbol_timeframe_uncaught(o, s, file) ==
    IF o.kind = "raise"
    THEN [raised |-> "Exception", file |-> file, log |-> "uncaught"]
    ELSE IF empty(o.df)
    THEN [raised |-> "none", file |-> file, log |-> "No data returned"]
    ELSE
    LET r == clean_dataframe(o.df, s)
        cleaned == [cols |-> o.df.cols, rows |-> r.out]
    IN  IF r.raised # "none"
        THEN [raised |-> r.raised, file |-> file, log |-> "uncaught"]
        ELSE IF empty(cleaned)
        THEN [raised |-> "none", file |-> file, log |-> "All data dropped after cleaning"]
        ELSE [raised |-> "none", file |-> <<cleaned>>, log |-> "Saved"]

\* Variant: the cleaned frame is saved without the second df.empty test.
download_symbol_timeframe_saves_empty(o, s, file) ==
    IF o.kind = "raise"
    THEN [raised |-> "none", file |-> file, log |-> "FAILED to download"]
    ELSE IF empty(o.df)
    THEN [raised |-> "none", file |-> file, log |-> "No data returned"]
    ELSE
    LET r == clean_dataframe(o.df, s)
        cleaned == [cols |-> o.df.cols, rows |-> r.out]
    IN  IF r.raised # "none"
        THEN [raised |-> r.raised, file |-> file, log |-> "uncaught"]
        ELSE [raised |-> "none", file |-> <<cleaned>>, log |-> "Saved"]

\* The whole function for one fetch outcome o, the arrangement s its sort
\* produces and the current content of out_file.  Result: what it raised
\* ("none" when it returned), the content of out_file afterwards, the line
\* it logged.
download_symbol_timeframe(o, s, file) ==
    IF o.kind = "raise"
    THEN [raised |-> "none", file |-> file, log |-> "FAILED to download"]
    ELSE IF empty(o.df)
    THEN [raised |-> "none", file |-> file, log |-> "No data returned"]
    ELSE
    LET r == clean_dataframe(o.df, s)
        cleaned == [cols |-> o.df.cols, rows |-> r.out]
    IN  IF r.raised # "none"
        THEN [raised |-> r.raised, file |-> file, log |-> "uncaught"]
        ELSE IF empty(cleaned)
        THEN [raised |-> "none", file |-> file, log |-> "All data dropped after cleaning"]
        ELSE [raised |-> "none", file |-> <<cleaned>>, log |-> "Saved"]

\* ------------------------------------------------------------------ state
VARIABLES
    df,           \* the frame the caller of clean_dataframe holds
    calls,        \* one record per clean_dataframe call made so far
    mpc,          \* position of main
    configExists, \* CONFIG_PATH.exists()
    symbols,      \* the labels listed in config/symbols.json, in order
    provider,     \* what dp.fetch does for each (symbol position, timeframe position)
    si,           \* position of the outer loop in symbols
    ti,           \* position of the inner loop in TIMEFRAME_CONFIG
    total,
    completed,
    files,        \* content of historical_data/<label>/<tf>/<label>_<tf>.parquet
    attempts,     \* the download_symbol_timeframe calls made, in order
    lastlog,      \* the line the last download_symbol_timeframe logged
    ret           \* exit status; -1 while running

cleanVars == <<df, calls>>
mainVars == <<mpc, configExists, symbols, provider, si, ti, total, completed, files,
              attempts, lastlog, ret>>
vars == <<df, calls, mpc, configExists, symbols, provider, si, ti, total, completed, files,
          attempts, lastlog, ret>>

\* ---------------------------------------------- clean_dataframe on its own
MainIdle ==
    /\ mpc = "idle" /\ configExists = TRUE /\ symbols = <<>> /\ provider = <<>>
    /\ si = 1 /\ ti = 1 /\ total = 0 /\ completed = 0
    /\ files = <<>> /\ attempts = <<>> /\ lastlog = "" /\ ret = 0 - 1

Init ==
    /\ df \in Frames
    /\ calls = <<>>
    /\ MainIdle

\* df = clean_dataframe(df)
CleanDataframe ==
    /\ Len(calls) < MaxCalls
    /\ Len(calls) > 0 => calls[Len(calls)].raised = "none"
    /\ \E s \in sort_index(df.rows) :
         LET r == clean_dataframe(df, s)
         IN  /\ calls' = Append(calls, [arg |-> df, raised |-> r.raised, sorted |-> r.sorted,
                                        out |-> r.out, dropped |-> r.dropped, log |-> r.log])
             /\ df' = IF r.raised = "none" THEN [cols |-> df.cols, rows |-> r.out] ELSE df
    /\ UNCHANGED mainVars

Next == CleanDataframe

Spec == Init /\ [][Next]_vars

\* ------------------------------------------------ properties of the cleaner
Returned(c) == c.raised = "none"

NoDuplicateTs(rows) ==
    \A i, j \in 1..Len(rows) : i # j => rows[i].ts # rows[j].ts

StrictlyIncreasing(rows) ==
    \A i \in 1..Len(rows) - 1 : rows[i].ts < rows[i + 1].ts

NoMissing(r) == \A c \in ohlcv_cols : r[c] # NaN

Valid(r) == NoMissing(r) /\ r.high >= r.low /\ r.volume > 0

HasAllColumns(f) == ohlcv_cols \subseteq f.cols

\* The rows of s at the positions that satisfy Keep, in order.
AtPositions(s, Keep(_)) ==
    LET F[k \in 0..Len(s)] ==
            IF k = 0 THEN <<>>
            ELSE IF Keep(k) THEN Append(F[k - 1], s[k]) ELSE F[k - 1]
    IN F[Len(s)]

Occurrences(s, r) == Cardinality({ i \in 1..Len(s) : s[i] = r })

\* C1: every series clean_dataframe returns has no two rows with the same
\* timestamp, no missing value in open, high, low, close or volume,
\* high >= low and volume > 0 in every row, and strictly increasing
\* timestamps.
C1_Postconditions ==
    \A k \in 1..Len(calls) :
        Returned(calls[k]) =>
            LET out == calls[k].out
            IN  /\ NoDuplicateTs(out)
                /\ \A i \in 1..Len(out) :
                     /\ NoMissing(out[i])
                     /\ out[i].high >= out[i].low
                     /\ out[i].volume > 0
                /\ StrictlyIncreasing(out)

\* An unsorted input with a repeated timestamp and a zero-volume row, from
\* which something is kept.
C1_Witness ==
    /\ Len(calls) = 1
    /\ Returned(calls[1])
    /\ ~is_monotonic_increasing(calls[1].arg.rows)
    /\ ~NoDuplicateTs(calls[1].arg.rows)
    /\ \E i \in 1..Len(calls[1].arg.rows) : calls[1].arg.rows[i].volume = 0
    /\ Len(calls[1].out) >= 1

\* C2: cleaning the result of a cleaning returns the same rows in the same
\* order with the same values, and drops nothing.
C2_Idempotent ==
    \A k \in 2..Len(calls) :
        /\ Returned(calls[k])
        /\ calls[k].arg.rows = calls[k - 1].out
        /\ calls[k].out = calls[k - 1].out
        /\ calls[k].dropped = 0

\* A second cleaning after a first one that dropped rows and kept some.
C2_Witness ==
    /\ Len(calls) = 2
    /\ calls[1].dropped > 0
    /\ Len(calls[1].out) >= 1
    /\ ~NoDuplicateTs(calls[1].arg.rows)

\* C3: for every timestamp, the only row that can appear in the output is
\* the one that comes first in the input among the rows with that timestamp.
C3_FirstInputOccurrenceWins ==
    \A k \in 1..Len(calls) :
        Returned(calls[k]) =>
            LET in == calls[k].arg.rows
                out == calls[k].out
                First(t) == CHOOSE j \in 1..Len(in) :
                               in[j].ts = t /\ \A h \in 1..j - 1 : in[h].ts # t
            IN  \A i \in 1..Len(out) : out[i] = in[First(out[i].ts)]

\* C4: clean_dataframe raises exactly when one of the five columns is absent,
\* and then hands nothing back; with all five columns it returns, an input
\* whose rows are all invalid giving the empty series.
C4_RaisesOnlyOnMissingColumn ==
    \A k \in 1..Len(calls) :
        LET c == calls[k]
        IN  /\ ~Returned(c) <=> ~HasAllColumns(c.arg)
            /\ ~Returned(c) => c.raised = "KeyError" /\ c.out = <<>> /\ df = c.arg
            /\ (HasAllColumns(c.arg) /\ \A i \in 1..Len(c.arg.rows) : ~Valid(c.arg.rows[i]))
                  => Returned(c) /\ c.out = <<>>

\* A call on a non-empty frame that lacks a column.
C4_Witness ==
    /\ Len(calls) = 1
    /\ calls[1].raised = "KeyError"
    /\ Len(calls[1].arg.rows) >= 1

WellFormed(f) ==
    /\ HasAllColumns(f)
    /\ StrictlyIncreasing(f.rows)
    /\ \A i \in 1..Len(f.rows) : Valid(f.rows[i])

\* C5: a frame with all five columns, strictly increasing timestamps and only
\* valid rows is returned unchanged, and no warning is logged.
C5_PassThrough ==
    \A k \in 1..Len(calls) :
        WellFormed(calls[k].arg) =>
            /\ Returned(calls[k])
            /\ calls[k].out = calls[k].arg.rows
            /\ calls[k].log = {}

\* A first call on a well-formed frame of two rows, one of them with high = low.
C5_Witness ==
    /\ Len(calls) = 1
    /\ WellFormed(calls[1].arg)
    /\ Len(calls[1].arg.rows) = 2
    /\ \E i \in 1..2 : calls[1].arg.rows[i].high = calls[1].arg.rows[i].low

\* C7: the dropped count is the input length minus the output length, the
\* warning is logged exactly when it is positive, and no call divides by zero;
\* an empty input logs nothing.
C7_DroppedCount ==
    \A k \in 1..Len(calls) :
        LET c == calls[k]
        IN  /\ c.raised # "ZeroDivisionError"
            /\ Returned(c) =>
                 /\ c.dropped = Len(c.arg.rows) - Len(c.out)
                 /\ c.dropped >= 0
                 /\ ("warning: cleaned bad rows" \in c.log) <=> (c.dropped > 0)
                 /\ Len(c.arg.rows) = 0 => c.log = {}

\* A call that dropped a duplicate and an invalid row and logged the warning.
C7_Witness ==
    /\ Len(calls) = 1
    /\ Returned(calls[1])
    /\ calls[1].dropped = 2
    /\ Len(calls[1].out) = 1
    /\ "warning: cleaned bad rows" \in calls[1].log

\* C8: the final check never fails: the error diagnostic is never logged, and
\* on every returned series the non-strict check the code makes agrees with
\* strict increase.
C8_IntegrityCheckNeverFails ==
    \A k \in 1..Len(calls) :
        Returned(calls[k]) =>
            /\ "error: index not monotonically increasing" \notin calls[k].log
            /\ is_monotonic_increasing(calls[k].out) <=> StrictlyIncreasing(calls[k].out)
            /\ StrictlyIncreasing(calls[k].out)

\* A call on a descending input that returned two rows.
C8_Witness ==
    /\ Len(calls) = 1
    /\ Returned(calls[1])
    /\ Len(calls[1].arg.rows) >= 2
    /\ \A i \in 1..Len(calls[1].arg.rows) - 1 :
         calls[1].arg.rows[i].ts > calls[1].arg.rows[i + 1].ts
    /\ Len(calls[1].out) = 2

\* C9: the output is exactly the rows that are the earliest-sorted row of
\* their timestamp and valid, in sorted order and unmodified (the sorted
\* frame holding the input rows in ascending order); so a timestamp whose
\* earliest-sorted row is invalid has no row in the output, and every valid
\* earliest-sorted row is in it.
C9_FilterOrder ==
    \A k \in 1..Len(calls) :
        Returned(calls[k]) =>
            LET c == calls[k]
                s == c.sorted
                Earliest(i) == \A j \in 1..i - 1 : s[j].ts # s[i].ts
                Keep(i) == Earliest(i) /\ Valid(s[i])
            IN  /\ Len(s) = Len(c.arg.rows)
                /\ \A i \in 1..Len(s) : Occurrences(s, s[i]) = Occurrences(c.arg.rows, s[i])
                /\ is_monotonic_increasing(s)
                /\ c.out = AtPositions(s, Keep)
                /\ \A i \in 1..Len(s) :
                     /\ (Earliest(i) /\ ~Valid(s[i])) =>
                            \A h \in 1..Len(c.out) : c.out[h].ts # s[i].ts
                     /\ (Earliest(i) /\ Valid(s[i])) =>
                            \E h \in 1..Len(c.out) : c.out[h] = s[i]

\* The earliest-sorted row of a timestamp is invalid, a later row of the same
\* timestamp is valid, and the output has no row of that timestamp.
C9_Witness ==
    /\ Len(calls) = 1
    /\ Returned(calls[1])
    /\ LET s == calls[1].sorted
       IN  \E i, j \in 1..Len(s) :
             /\ i < j
             /\ s[i].ts = s[j].ts
             /\ \A h \in 1..i - 1 : s[h].ts # s[i].ts
             /\ ~Valid(s[i])
             /\ Valid(s[j])
             /\ \A h \in 1..Len(calls[1].out) : calls[1].out[h].ts # s[i].ts
    /\ Len(calls[1].out) >= 1


\* ------------------------------------------------------------------- main
SymbolPositions == 1..MaxSymbols
TimeframePositions == 1..Len(TIMEFRAME_CONFIG)
Pairs == SymbolPositions \X TimeframePositions

\* The provider behaves the same way for every pair, or for every pair but one.
Providers ==
    { [p \in Pairs |-> IF p = d THEN od ELSE ob] :
        d \in Pairs, ob \in FetchOutcomes, od \in FetchOutcomes }

FileNames == { <<l, TIMEFRAME_CONFIG[t]>> : l \in SymbolPositions, t \in TimeframePositions }

InitMain ==
    /\ df = EmptyFrame
    /\ calls = <<>>
    /\ mpc = "start"
    /\ configExists \in BOOLEAN
    /\ \E n \in 0..MaxSymbols : symbols = [k \in 1..n |-> k]
    /\ provider \in Providers
    /\ si = 1 /\ ti = 1 /\ total = 0 /\ completed = 0
    /\ \E prior \in {NoFile, StaleFile} : files = [f \in FileNames |-> prior]
    /\ attempts = <<>>
    /\ lastlog = ""
    /\ ret = 0 - 1

\* symbols = load_symbols(); total = ...; completed = 0
main_start ==
    /\ mpc = "start"
    /\ IF configExists
       THEN /\ mpc' = "loop"
            /\ total' = Len(symbols) * Len(TIMEFRAME_CONFIG)
            /\ completed' = 0
            /\ ret' = ret
       ELSE /\ mpc' = "exited"
            /\ ret' = 1
            /\ UNCHANGED <<total, completed>>
    /\ UNCHANGED <<df, calls, configExists, symbols, provider, si, ti, files, attempts, lastlog>>

\* one pass through the body of the inner loop
main_download ==
    /\ mpc = "loop"
    /\ si <= Len(symbols)
    /\ completed' = completed + 1
    /\ attempts' = Append(attempts, <<si, ti>>)
    /\ LET o == provider[<<si, ti>>]
           name == <<symbols[si], TIMEFRAME_CONFIG[ti]>>
       IN  \E s \in sort_index(o.df.rows) :
             LET r == download_symbol_timeframe(o, s, files[name])
             IN  /\ files' = [files EXCEPT ![name] = r.file]
                 /\ lastlog' = r.log
                 /\ IF r.raised # "none"
                    THEN mpc' = "crashed" /\ UNCHANGED <<si, ti>>
                    ELSE /\ mpc' = "loop"
                         /\ IF ti < Len(TIMEFRAME_CONFIG)
                            THEN ti' = ti + 1 /\ si' = si
                            ELSE ti' = 1 /\ si' = si + 1
    /\ UNCHANGED <<df, calls, configExists, symbols, provider, total, ret>>

\* return 0
main_return ==
    /\ mpc = "loop"
    /\ si > Len(symbols)
    /\ mpc' = "done"
    /\ ret' = 0
    /\ UNCHANGED <<df, calls, configExists, symbols, provider, si, ti, total, completed,
                   files, attempts, lastlog>>

NextMain == main_start \/ main_download \/ main_return

SpecMain == InitMain /\ [][NextMain]_vars

\* dp.fetch returns or raises, and the interpreter keeps running main.
LiveSpecMain == SpecMain /\ WF_vars(NextMain)

\* ------------------------------------------------- properties of the driver
FileName(p) == <<symbols[p[1]], TIMEFRAME_CONFIG[p[2]]>>

Attempted(p) == \E k \in 1..Len(attempts) : attempts[k] = p

\* The pairs of the first n symbols in configuration order.
ConfigOrder(n) ==
    [k \in 1..n * Len(TIMEFRAME_CONFIG) |->
        <<((k - 1) \div Len(TIMEFRAME_CONFIG)) + 1, ((k - 1) % Len(TIMEFRAME_CONFIG)) + 1>>]

PersistedOk(file) ==
    file # NoFile =>
        /\ Len(file) = 1
        /\ Len(file[1].rows) >= 1
        /\ HasAllColumns(file[1])
        /\ StrictlyIncreasing(file[1].rows)
        /\ \A i \in 1..Len(file[1].rows) : Valid(file[1].rows[i])

C6_Step ==
    (mpc = "loop" /\ si <= Len(symbols)) =>
        LET o == provider[<<si, ti>>]
            name == FileName(<<si, ti>>)
        IN  /\ mpc' # "crashed"
            /\ \A f \in FileNames \ {name} : files'[f] = files[f]
            /\ (\/ o.kind = "raise"
                \/ Len(o.df.rows) = 0
                \/ \A i \in 1..Len(o.df.rows) : ~Valid(o.df.rows[i]))
                  => files'[name] = files[name]
            /\ files'[name] # files[name] =>
                  /\ o.kind = "frame"
                  /\ Len(o.df.rows) >= 1
                  /\ files'[name] # NoFile
                  /\ \A i \in 1..Len(files'[name][1].rows) :
                       \E j \in 1..Len(o.df.rows) : o.df.rows[j] = files'[name][1].rows[i]
            /\ \A f \in FileNames : PersistedOk(files'[f])

\* C6: a download step writes out_file only when the fetch returned a
\* non-empty frame whose cleaning is non-empty; when the fetch raises, returns
\* an empty frame or cleaning drops every row it returns normally and leaves
\* the file as it was; every file holds a non-empty series that satisfies the
\* cleaner's postconditions.
C6_WritesOnlyCleanNonEmpty == [][C6_Step]_vars

\* A finished run that left one stale file alone, because cleaning dropped
\* every fetched row, and replaced another with a cleaned series.
C6_Witness ==
    /\ mpc = "done"
    /\ \E p, q \in Pairs :
         /\ Attempted(p) /\ Attempted(q)
         /\ provider[p].kind = "frame" /\ provider[p].df = AllBadFrame
         /\ files[FileName(p)] = StaleFile
         /\ provider[q].kind = "frame" /\ provider[q].df = MessyFrame
         /\ files[FileName(q)] # StaleFile
         /\ Len(files[FileName(q)][1].rows) = 2

C10_Order ==
    /\ mpc # "crashed"
    /\ mpc \in {"loop", "done"} =>
         /\ completed = Len(attempts)
         /\ Len(attempts) <= Len(symbols) * Len(TIMEFRAME_CONFIG)
         /\ attempts = SubSeq(ConfigOrder(Len(symbols)), 1, Len(attempts))
    /\ mpc = "done" =>
         /\ ret = 0
         /\ completed = Len(symbols) * Len(TIMEFRAME_CONFIG)
         /\ completed = total

\* C10: main attempts the (symbol, timeframe) pairs one after the other in
\* configuration order, each exactly once, whatever the fetches do, and once
\* the symbols are loaded the run ends returning 0 with completed equal to
\* the number of symbols times the number of timeframes.
C10_SequentialRun == [](C10_Order) /\ [](mpc = "loop" => <>(mpc = "done"))

\* A finished run over two symbols in which every fetch but one raised and
\* the other one returned only invalid rows.
C10_Witness ==
    /\ mpc = "done"
    /\ Len(symbols) = 2
    /\ completed = 14
    /\ \E p, q \in Pairs :
         /\ Attempted(p) /\ Attempted(q)
         /\ provider[p].kind = "raise"
         /\ provider[q].kind = "frame" /\ provider[q].df = AllBadFrame

====
